---- MODULE Spec2Model ----
(***************************************************************************)
(* A model of the schema-to-type translation engine of jsonschema_gentypes *)
(* (src/jsonschema_gentypes/__init__.py): API.get_type and the APIv4       *)
(* handlers, run as an explicit call stack over a heap of schema mappings, *)
(* a heap of Type nodes, the resolver's scope stack and the ref_type cache.*)
(***************************************************************************)
EXTENDS Integers, Sequences, FiniteSets, TLC

VARIABLES
    heap,       \* the schema mappings (Python dicts), by address
    store,      \* the resolver's document store: document name -> address of its root
    types,      \* the Type nodes created so far, by identity
    scopes,     \* the resolver's scope stack (RefResolver._scopes_stack)
    ref_type,   \* API.ref_type: raw `$ref` string -> Type node
    policy,     \* API.additional_properties
    stack,      \* the Python call stack of the translation
    exc,        \* the exception being propagated, "" when none
    outcome,    \* how the last top-level get_type call ended
    calls,      \* number of top-level get_type calls started on this engine
    root,       \* the schema handed to the top-level get_type calls
    refs,       \* what ref() has done so far for each raw `$ref` string
    engine,     \* number of engines constructed so far on the document
    previous,   \* how the translation by the engine before this one ended
    rendered,   \* what TypeEnum.definition gave for the node it was last called on
    loaded      \* the documents as they were when the first engine was constructed

vars ==
    <<heap, store, types, scopes, ref_type, policy, stack, exc, outcome, calls, root, refs,
      engine, previous, rendered, loaded>>

\* what the translation by one engine leaves alone
aside == <<engine, previous, rendered, loaded>>

(***************************************************************************)
(* Bounds of the model.                                                    *)
(***************************************************************************)
\* the interpreter's recursion limit, in frames of this model
MaxDepth == 22
\* top-level get_type calls made on one engine
MaxCalls == 1
\* longest `items` list and largest minItems/maxItems tried
MaxItems == 2
\* engines constructed, one after the other, on one document
MaxEngines == 2

(***************************************************************************)
(* JSON values.  A mapping is held in the heap and referred to by address, *)
(* so that two references to one dict see each other's updates.            *)
(***************************************************************************)
Str(s) == [t |-> "str", v |-> s]
Num(n) == [t |-> "int", v |-> n]
Bool(b) == [t |-> "bool", v |-> b]
Null == [t |-> "null", v |-> 0]
\* what dict.get gives for a key that is not there, before its default applies
Absent == [t |-> "absent", v |-> 0]
IsNone(x) == x.t \in {"null", "absent"}
List(s) == [t |-> "list", v |-> s]
Dict(a) == [t |-> "dict", v |-> a]
\* a mapping written out in a document literal, before it is loaded into the heap
Obj(kvs) == [t |-> "obj", v |-> kvs]
KV(k, v) == [k |-> k, v |-> v]

\* the value of a `$ref` or `$id` keyword: a URI reference "doc#/p1/p2";
\* hash tells "#" from the empty string when there is no document part
Uri(doc, ptr) == [doc |-> doc, ptr |-> ptr, hash |-> TRUE]
RefStr(doc, ptr) == [t |-> "ref", v |-> Uri(doc, ptr)]
EmptyRef == [t |-> "ref", v |-> [doc |-> "", ptr |-> <<>>, hash |-> FALSE]]
SelfRef == RefStr("", <<>>)

\* Python truthiness of a JSON value (`if properties:`, `if scope:`, `if ref:`)
Truthy(heapNow, x) ==
    CASE x.t = "str" -> x.v # ""
      [] x.t = "int" -> x.v # 0
      [] x.t = "bool" -> x.v
      [] x.t \in {"null", "absent"} -> FALSE
      [] x.t = "list" -> Len(x.v) > 0
      [] x.t = "dict" -> Len(heapNow[x.v]) > 0
      [] x.t = "ref" -> x.v.doc # "" \/ x.v.hash

(***************************************************************************)
(* Python dict operations on an insertion-ordered sequence of key/value    *)
(* pairs.                                                                  *)
(***************************************************************************)
Has(d, k) == \E i \in 1..Len(d) : d[i].k = k
Get(d, k) == d[CHOOSE i \in 1..Len(d) : d[i].k = k].v
GetOr(d, k, dflt) == IF Has(d, k) THEN Get(d, k) ELSE dflt
Put(d, k, v) ==
    IF Has(d, k) THEN [i \in 1..Len(d) |-> IF d[i].k = k THEN KV(k, v) ELSE d[i]]
    ELSE Append(d, KV(k, v))
Del(d, k) == SelectSeq(d, LAMBDA e : e.k # k)
RECURSIVE Update(_, _)
Update(d, e) == IF e = <<>> THEN d ELSE Update(Put(d, Head(e).k, Head(e).v), Tail(e))
RECURSIVE DelAll(_, _)
DelAll(d, ks) == IF ks = <<>> THEN d ELSE DelAll(Del(d, Head(ks)), Tail(ks))

(***************************************************************************)
(* Loading a document literal into the heap: every Obj becomes a dict at   *)
(* an address of its own, in the order the mappings are written.           *)
(***************************************************************************)
RECURSIVE Size(_)
RECURSIVE SizeSeq(_, _)
\* the number of mappings in the literal x
Size(x) ==
    CASE x.t = "obj" -> 1 + SizeSeq([i \in 1..Len(x.v) |-> x.v[i].v], Len(x.v))
      [] x.t = "list" -> SizeSeq(x.v, Len(x.v))
      [] OTHER -> 0
\* the number of mappings in the first n literals of xs
SizeSeq(xs, n) == IF n = 0 THEN 0 ELSE SizeSeq(xs, n - 1) + Size(xs[n])

RECURSIVE Loaded(_, _)
\* the value the literal x becomes when its first mapping gets address a
Loaded(x, a) ==
    CASE x.t = "obj" -> Dict(a)
      [] x.t = "list" -> List([i \in 1..Len(x.v) |-> Loaded(x.v[i], a + SizeSeq(x.v, i - 1))])
      [] OTHER -> x

RECURSIVE Flat(_, _)
RECURSIVE FlatSeq(_, _, _)
\* the mappings of the literal x, the first of them at address a
Flat(x, a) ==
    CASE x.t = "obj" ->
            LET vals == [i \in 1..Len(x.v) |-> x.v[i].v]
            IN <<[i \in 1..Len(x.v) |->
                    KV(x.v[i].k, Loaded(vals[i], a + 1 + SizeSeq(vals, i - 1)))]>>
               \o FlatSeq(vals, a + 1, 1)
      [] x.t = "list" -> FlatSeq(x.v, a, 1)
      [] OTHER -> <<>>
\* the mappings of the literals xs[i], xs[i+1], ..., when those of xs[1] start at a
FlatSeq(xs, a, i) ==
    IF i > Len(xs) THEN <<>>
    ELSE Flat(xs[i], a + SizeSeq(xs, i - 1)) \o FlatSeq(xs, a, i + 1)

(***************************************************************************)
(* The resolver (jsonschema.RefResolver), as the engine uses it: a scope   *)
(* stack whose top is the resolution scope, and resolve(ref), which joins  *)
(* the reference to the resolution scope and walks the fragment through    *)
(* the stored document.                                                    *)
(***************************************************************************)
UrlJoin(base, ref) ==
    IF ref.doc # "" THEN Uri(ref.doc, ref.ptr)
    ELSE IF ref.hash THEN Uri(base.doc, ref.ptr)
    ELSE base

RECURSIVE ResolveFragment(_, _, _)
ResolveFragment(h, x, ptr) ==
    IF ptr = <<>> THEN [ok |-> TRUE, v |-> x]
    ELSE IF x.t = "dict" /\ Has(h[x.v], Head(ptr))
         THEN ResolveFragment(h, Get(h[x.v], Head(ptr)), Tail(ptr))
         ELSE [ok |-> FALSE, v |-> Null]

\* resolver.resolve(ref): the joined url and the schema found there
Resolve(h, st, scopeStack, ref) ==
    LET url == UrlJoin(scopeStack[Len(scopeStack)], ref)
    IN IF url.doc \in DOMAIN st
       THEN LET r == ResolveFragment(h, Dict(st[url.doc]), url.ptr)
            IN [ok |-> r.ok, url |-> url, v |-> r.v]
       ELSE [ok |-> FALSE, url |-> url, v |-> Null]

PushScope(scopeStack, scope) == Append(scopeStack, scope)
PopScope(scopeStack) == SubSeq(scopeStack, 1, Len(scopeStack) - 1)

(***************************************************************************)
(* Type nodes.  A node is known by its index in `types`, so two uses of    *)
(* one index are two uses of one Python object.                            *)
(***************************************************************************)
Node(cls, name, value, base, subs, props, comments, descriptions) ==
    [cls |-> cls, name |-> name, value |-> value, base |-> base, subs |-> subs,
     props |-> props, comments |-> comments, descriptions |-> descriptions]
BuiltinType(n) == Node("BuiltinType", <<n>>, Null, 0, <<>>, <<>>, <<>>, <<>>)
NativeType(n) == Node("NativeType", <<n>>, Null, 0, <<>>, <<>>, <<>>, <<>>)
LiteralType(c) == Node("LiteralType", <<>>, c, 0, <<>>, <<>>, <<>>, <<>>)
CombinedType(base, subs) == Node("CombinedType", <<>>, Null, base, subs, <<>>, <<>>, <<>>)
TypeAlias(n, sub, descr) == Node("TypeAlias", n, Null, 0, <<sub>>, <<>>, <<>>, descr)
TypeEnum(n, values, descr) == Node("TypeEnum", n, values, 0, <<>>, <<>>, <<>>, descr)
TypedDictType(n, props, subs, descr) ==
    Node("TypedDictType", n, Null, 0, subs, props, <<>>, descr)

IsNamedType(node) == node.cls \in {"TypeAlias", "TypeEnum", "TypedDictType"}
SetComments(ts, id, c) == [ts EXCEPT ![id].comments = c]

\* a line of a comment or description: a fixed text, or "key: value"
Text(s) == [k |-> "", v |-> Str(s)]
Blank == Text("")

\* CombinedType(NativeType(base), subs) appended to ts; the new node is the last one
WithCombined(ts, base, subs) ==
    LET b == Len(ts) + 1
    IN ts \o <<NativeType(base), CombinedType(b, subs)>>

(***************************************************************************)
(* get_name and get_description.  A name is kept as the sequence of the    *)
(* pieces it was concatenated from; "_" in front marks a name that was     *)
(* derived from the proposed name and not from a title.                    *)
(***************************************************************************)
get_name(d, proposed_name) ==
    IF Has(d, "title") THEN <<Get(d, "title").v>> ELSE <<"_">> \o proposed_name

Consumed ==
    {"title", "description", "$ref", "$schema", "$id", "const", "type", "items",
     "additionalProperties"}

RECURSIVE ScalarLines(_)
ScalarLines(d) ==
    IF d = <<>> THEN <<>>
    ELSE LET e == Head(d)
         IN (IF e.k \notin Consumed /\ e.v.t \notin {"list", "dict"}
             THEN <<KV(e.k, e.v)>> ELSE <<>>) \o ScalarLines(Tail(d))

get_description(d) ==
    LET t == IF Has(d, "title") THEN <<KV("", Get(d, "title"))>> ELSE <<>>
        td == IF Has(d, "description")
              THEN (IF t # <<>> THEN t \o <<Blank>> ELSE t) \o <<KV("", Get(d, "description"))>>
              ELSE t
        sc == ScalarLines(d)
    IN IF sc = <<>> THEN td
       ELSE (IF td # <<>> THEN td \o <<Blank>> ELSE td) \o sc

(***************************************************************************)
(* The call stack.  A frame is one activation of a method of the engine;   *)
(* pc names the place it resumes at when its callee returns, rv is the     *)
(* value the callee returned.  scopes0 records the resolver's scope stack  *)
(* at the moment the activation started.                                   *)
(***************************************************************************)
Frame(fn, schema, name) ==
    [fn |-> fn, pc |-> "start", schema |-> schema, name |-> name, auto_alias |-> TRUE,
     scopes0 |-> <<>>, pushed |-> FALSE, i |-> 0, acc |-> <<>>, aux |-> 0, stype |-> "",
     ref |-> Null, rv |-> 0, subs |-> <<>>, x1 |-> Null, x2 |-> Null]

Top == stack[Len(stack)]
SetTop(f) == [stack EXCEPT ![Len(stack)] = f]
Running(fn, pc) == stack # <<>> /\ exc = "" /\ Top.fn = fn /\ Top.pc = pc

\* the caller becomes `top` and calls `callee`; sc is the scope stack at the call.
\* A call beyond the recursion limit raises RecursionError in the caller.
CallFrom(top, callee, sc) ==
    IF Len(stack) >= MaxDepth
    THEN /\ stack' = SetTop(top)
         /\ exc' = "RecursionError"
    ELSE /\ stack' = Append(SetTop(top), [callee EXCEPT !.scopes0 = sc])
         /\ exc' = exc

\* the activation ends, returning node id
Done(top, id) == stack' = SetTop([top EXCEPT !.pc = "done", !.rv = id])
\* the activation raises e
Raise(e) == exc' = e

EmptyMap == [k \in {} |-> 0]
NoOutcome == [status |-> "none", value |-> 0, exc |-> ""]

\* API.additional_properties
ALWAYS == "always"
ONLY_EXPLICIT == "only_explicit"

(***************************************************************************)
(* API.get_type                                                            *)
(***************************************************************************)
\* the top-level call: get_type(root) with the default proposed name
Start ==
    /\ stack = <<>>
    /\ exc = ""
    /\ calls < MaxCalls
    /\ calls' = calls + 1
    /\ stack' = <<[Frame("get_type", root, <<"Base">>) EXCEPT !.scopes0 = scopes]>>
    /\ outcome' = NoOutcome
    /\ UNCHANGED <<heap, store, types, scopes, ref_type, policy, aside, exc, root, refs>>

\* get_type up to the call of _get_type_internal
GetType ==
    /\ Running("get_type", "start")
    /\ LET f == Top
       IN CASE f.schema.t = "bool" ->
                 /\ types' = Append(types, IF f.schema.v THEN NativeType("Any")
                                                        ELSE BuiltinType("None"))
                 /\ Done(f, Len(types) + 1)
                 /\ exc' = exc
            [] f.schema.t = "dict" ->
                 /\ CallFrom([f EXCEPT !.pc = "after"],
                             Frame("_get_type_internal", f.schema, f.name), scopes)
                 /\ types' = types
            [] OTHER ->
                 /\ Raise("AttributeError")
                 /\ UNCHANGED <<stack, types>>
    /\ UNCHANGED <<heap, store, scopes, ref_type, policy, aside, outcome, calls, root, refs>>

\* the description to attach: get_description(schema), a blank line and the
\* node's own comments
MergedDescription(d, node) ==
    LET description == get_description(d)
        additional == node.comments
    IN (IF description # <<>> /\ additional # <<>> THEN description \o <<Blank>>
        ELSE description) \o additional

\* get_type after _get_type_internal has returned the_type
GetTypeAfter ==
    /\ Running("get_type", "after")
    /\ LET f == Top
           d == heap[f.schema.v]
           the_type == f.rv
           description == MergedDescription(d, types[the_type])
       IN IF ~IsNamedType(types[the_type]) /\ description # <<>>
          THEN IF f.auto_alias
               THEN /\ types' = Append(types, TypeAlias(get_name(d, f.name), the_type,
                                                        description))
                    /\ Done(f, Len(types) + 1)
               ELSE /\ types' = SetComments(types, the_type, description)
                    /\ Done(f, the_type)
          ELSE /\ types' = types
               /\ Done(f, the_type)
    /\ UNCHANGED <<heap, store, scopes, ref_type, policy, aside, exc, outcome, calls, root, refs>>

(***************************************************************************)
(* Returning and raising                                                   *)
(***************************************************************************)
\* a finished activation hands its node to its caller
Return ==
    /\ stack # <<>>
    /\ exc = ""
    /\ Top.pc = "done"
    /\ IF Len(stack) = 1
       THEN /\ stack' = <<>>
            /\ outcome' = [status |-> "returned", value |-> Top.rv, exc |-> ""]
       ELSE /\ stack' = [SubSeq(stack, 1, Len(stack) - 1)
                            EXCEPT ![Len(stack) - 1].rv = Top.rv]
            /\ outcome' = outcome
    /\ UNCHANGED <<heap, store, types, scopes, ref_type, policy, aside, exc, calls, root, refs>>

\* the try/finally of APIv4.ref is the only handler on the stack
InTry(f) == f.fn = "ref" /\ f.pc = "in_try"

\* an exception leaves an activation that does not handle it
Unwind ==
    /\ stack # <<>>
    /\ exc # ""
    /\ ~InTry(Top)
    /\ stack' = SubSeq(stack, 1, Len(stack) - 1)
    /\ IF Len(stack) = 1
       THEN /\ outcome' = [status |-> "raised", value |-> 0, exc |-> exc]
            /\ exc' = ""
       ELSE /\ outcome' = outcome
            /\ exc' = exc
    /\ UNCHANGED <<heap, store, types, scopes, ref_type, policy, aside, calls, root, refs>>

(***************************************************************************)
(* API._resolve_ref and the if/then/else rewriting of _get_type_internal   *)
(***************************************************************************)
\* _resolve_ref(x): when x carries `$ref`, x itself is updated with the resolved
\* schema.  x is Absent when the caller passed a fresh empty dict.  Gives the
\* exception raised (or ""), the heap afterwards and the content of the dict.
ResolveRefIn(h, st, sc, x) ==
    CASE x.t = "absent" -> [exc |-> "", h |-> h, d |-> <<>>]
      [] x.t = "dict" ->
            IF ~Has(h[x.v], "$ref") THEN [exc |-> "", h |-> h, d |-> h[x.v]]
            ELSE LET r == Resolve(h, st, sc, Get(h[x.v], "$ref").v)
                 IN IF ~r.ok THEN [exc |-> "RefResolutionError", h |-> h, d |-> <<>>]
                    ELSE IF r.v.t # "dict" THEN [exc |-> "TypeError", h |-> h, d |-> <<>>]
                    ELSE LET h2 == [h EXCEPT ![x.v] = Update(h[x.v], h[r.v.v])]
                         IN [exc |-> "", h |-> h2, d |-> h2[x.v]]
      [] OTHER -> [exc |-> "TypeError", h |-> h, d |-> <<>>]

Failed(e, h) == [exc |-> e, h |-> h, then |-> Null, else |-> Null]

\* lines 370-374: the schema without if, then, else, title and description
BaseSchema(d) == DelAll(d, <<"if", "then", "else", "title", "description">>)

\* lines 378-379: then_schema gets an empty `properties` when it has none
ThenSchema(then_schema, fresh) ==
    IF Has(then_schema, "properties") THEN then_schema
    ELSE Put(then_schema, "properties", Dict(fresh))
ThenHeap(then_schema, h) ==
    IF Has(then_schema, "properties") THEN h ELSE Append(h, <<>>)

\* line 386: target.update(source), on the dicts themselves
MergeInto(h, target, source) == [h EXCEPT ![target] = Update(h[target], h[source])]

\* lines 387-389, with r3 what _resolve_ref gave for `else`
IfElseSchema(base_schema, then_schema, r3) ==
    IF r3.exc # "" THEN Failed(r3.exc, r3.h)
    ELSE [exc |-> "", h |-> r3.h \o <<then_schema, Update(base_schema, r3.d)>>,
          then |-> Dict(Len(r3.h) + 1), else |-> Dict(Len(r3.h) + 2)]

\* lines 382-386, with r2 what _resolve_ref gave for `if`
IfProperties(base_schema, then_schema, r2, st, sc, a) ==
    IF r2.exc # "" THEN Failed(r2.exc, r2.h)
    ELSE IF ~Truthy(r2.h, GetOr(r2.d, "properties", Absent))
    THEN Failed("AssertionError", r2.h)
    ELSE IF Get(then_schema, "properties").t # "dict" \/ Get(r2.d, "properties").t # "dict"
    THEN Failed("AttributeError", r2.h)
    ELSE IfElseSchema(base_schema, then_schema,
             ResolveRefIn(MergeInto(r2.h, Get(then_schema, "properties").v,
                                    Get(r2.d, "properties").v),
                          st, sc,
                          GetOr(MergeInto(r2.h, Get(then_schema, "properties").v,
                                          Get(r2.d, "properties").v)[a], "else", Absent)))

\* lines 380-381, with then_schema built and h2 the heap holding its properties
ThenProperties(base_schema, then_schema, h2, st, sc, a) ==
    IF ~Truthy(h2, Get(then_schema, "properties")) THEN Failed("AssertionError", h2)
    ELSE IfProperties(base_schema, then_schema,
                      ResolveRefIn(h2, st, sc, GetOr(h2[a], "if", Absent)), st, sc, a)

\* lines 375-379, with r1 what _resolve_ref gave for `then`
ThenPart(base_schema, r1, st, sc, a) ==
    IF r1.exc # "" THEN Failed(r1.exc, r1.h)
    ELSE ThenProperties(base_schema,
                        ThenSchema(Update(base_schema, r1.d), Len(r1.h) + 1),
                        ThenHeap(Update(base_schema, r1.d), r1.h), st, sc, a)

\* lines 370-389: the then and else schemas built for the schema at address a
IfRewrite(h, st, sc, a) ==
    ThenPart(BaseSchema(h[a]), ResolveRefIn(h, st, sc, GetOr(h[a], "then", Absent)),
             st, sc, a)

(***************************************************************************)
(* API._get_type_internal                                                  *)
(***************************************************************************)
\* which way _get_type_internal goes for the mapping d
Dispatch(d) ==
    LET schema_type == GetOr(d, "type", Absent)
    IN IF Has(d, "if") THEN "if"
       ELSE IF Has(d, "$ref") THEN "ref"
       ELSE IF Has(d, "const") THEN "const"
       ELSE IF schema_type.t = "list" THEN "type_list"
       ELSE IF IsNone(schema_type) /\ Has(d, "allOf") THEN "all_of"
       ELSE IF IsNone(schema_type) /\ Has(d, "anyOf") THEN "any_of"
       ELSE IF IsNone(schema_type) /\ Has(d, "oneOf") THEN "one_of"
       ELSE IF IsNone(schema_type) /\ Has(d, "enum") THEN "enum"
       ELSE IF IsNone(schema_type) /\ Has(d, "default") THEN "default"
       ELSE IF IsNone(schema_type) THEN "no_type"
       ELSE IF schema_type.t = "str" THEN "type"
       ELSE "bad_type"

\* the branches that leave through lines 447-448, where the `$id` scope is popped
PopsScope(way) == way \in {"no_type", "type", "bad_type"}

\* _get_type_internal up to its first call (or to its end, when it calls nothing)
Internal ==
    /\ Running("_get_type_internal", "start")
    /\ LET f == Top
           d == heap[f.schema.v]
           scope == GetOr(d, "$id", EmptyRef)
           pushed == Truthy(heap, scope)
           sc1 == IF pushed THEN PushScope(scopes, scope.v) ELSE scopes
           sc2 == IF pushed THEN PopScope(sc1) ELSE sc1
           proposed_name == IF Has(d, "title") THEN <<Get(d, "title").v>> ELSE f.name
           way == Dispatch(d)
           g == [f EXCEPT !.pushed = pushed, !.name = proposed_name]
       IN CASE way = "if" ->
                 LET r == IfRewrite(heap, store, sc1, f.schema.v)
                 IN /\ heap' = r.h
                    /\ scopes' = sc1
                    /\ types' = types
                    /\ IF r.exc # ""
                       THEN /\ Raise(r.exc)
                            /\ stack' = SetTop(g)
                       ELSE CallFrom([g EXCEPT !.pc = "if_then", !.x1 = r.then, !.x2 = r.else],
                                     Frame("get_type", r.then, Append(proposed_name, "then")),
                                     sc1)
            [] way \in {"ref", "const", "enum", "default"} ->
                 /\ scopes' = sc1
                 /\ CallFrom([g EXCEPT !.pc = "ret"], Frame(way, f.schema, proposed_name), sc1)
                 /\ UNCHANGED <<heap, types>>
            [] way \in {"all_of", "any_of", "one_of"} ->
                 /\ scopes' = sc1
                 /\ CallFrom([g EXCEPT !.pc = "ret"],
                             [Frame(IF way = "all_of" THEN "all_of" ELSE "any_of",
                                    f.schema, proposed_name)
                                EXCEPT !.subs = Get(d, CASE way = "all_of" -> "allOf"
                                                         [] way = "any_of" -> "anyOf"
                                                         [] OTHER -> "oneOf").v],
                             sc1)
                 /\ UNCHANGED <<heap, types>>
            [] way = "type_list" ->
                 /\ scopes' = sc1
                 /\ heap' = Append(heap, Del(d, "title"))
                 /\ stack' = SetTop([g EXCEPT !.pc = "type_list", !.x1 = Dict(Len(heap) + 1),
                                              !.subs = Get(d, "type").v])
                 /\ UNCHANGED <<types, exc>>
            [] way = "no_type" ->
                 /\ scopes' = sc2
                 /\ types' = Append(types,
                        [BuiltinType("None") EXCEPT !.comments =
                            <<Text("WARNING: we get an scheam without any type")>>])
                 /\ Done(g, Len(types) + 1)
                 /\ UNCHANGED <<heap, exc>>
            [] way = "type" ->
                 /\ scopes' = sc2
                 /\ CallFrom([g EXCEPT !.pc = "ret"],
                             [Frame("_get_type", f.schema, proposed_name)
                                EXCEPT !.stype = Get(d, "type").v],
                             sc2)
                 /\ UNCHANGED <<heap, types>>
            [] OTHER ->
                 /\ scopes' = sc2
                 /\ Raise("AssertionError")
                 /\ stack' = SetTop(g)
                 /\ UNCHANGED <<heap, types>>
    /\ UNCHANGED <<store, ref_type, policy, aside, outcome, calls, root, refs>>

\* line 394 has returned: translate the else schema (line 395)
IfThen ==
    /\ Running("_get_type_internal", "if_then")
    /\ LET f == Top
       IN CallFrom([f EXCEPT !.pc = "if_else", !.acc = <<f.rv>>],
                   Frame("get_type", f.x2, Append(f.name, "else")), scopes)
    /\ UNCHANGED <<heap, store, types, scopes, ref_type, policy, aside, outcome, calls, root, refs>>

\* line 395 has returned: the union of the two branches (lines 391-397)
IfElse ==
    /\ Running("_get_type_internal", "if_else")
    /\ LET f == Top
       IN /\ types' = WithCombined(types, "Union", Append(f.acc, f.rv))
          /\ Done(f, Len(types) + 2)
    /\ UNCHANGED <<heap, store, scopes, ref_type, policy, aside, exc, outcome, calls, root, refs>>

\* the loop of lines 423-429 over the elements of a `type` array
TypeList ==
    /\ Running("_get_type_internal", "type_list")
    /\ LET f == Top
           acc == IF f.i > 0 THEN Append(f.acc, f.rv) ELSE f.acc
       IN IF f.i < Len(f.subs)
          THEN /\ CallFrom([f EXCEPT !.i = f.i + 1, !.acc = acc],
                           [Frame("_get_type", f.x1, Append(f.name, f.subs[f.i + 1].v))
                              EXCEPT !.stype = f.subs[f.i + 1].v],
                           scopes)
               /\ types' = types
          ELSE /\ types' = WithCombined(types, "Union", acc)
               /\ Done(f, Len(types) + 2)
               /\ exc' = exc
    /\ UNCHANGED <<heap, store, scopes, ref_type, policy, aside, outcome, calls, root, refs>>

\* `return self.<handler>(...)`: the callee's node is returned as it is
TailReturn ==
    /\ stack # <<>>
    /\ exc = ""
    /\ Top.pc = "ret"
    /\ Done(Top, Top.rv)
    /\ UNCHANGED <<heap, store, types, scopes, ref_type, policy, aside, exc, outcome, calls, root, refs>>

(***************************************************************************)
(* API._get_type and API.get_type_handler                                  *)
(***************************************************************************)
\* the public attributes of an APIv4 object that getattr finds and that can be
\* called as handler(schema, proposed_name)
Handlers ==
    {"const", "enum", "boolean", "object", "array", "ref", "string", "number",
     "integer", "null", "default", "get_type"}
\* the public attributes that cannot be called that way: methods of another
\* arity (all_of, any_of, get_type_handler) and the fields set by __init__
OtherAttributes ==
    {"all_of", "any_of", "get_type_handler", "resolver", "additional_properties",
     "ref_type"}
\* the type strings tried that start with "_"
PrivateNames == {"_get_type", "__init__"}

\* get_type_handler(schema_type): the exception it raises, or ""
get_type_handler(schema_type) ==
    IF schema_type \in PrivateNames THEN "AttributeError"
    ELSE IF schema_type \in Handlers \cup OtherAttributes THEN ""
    ELSE "NotImplementedError"

\* _get_type: the handler is looked up and called
GetTypeOf ==
    /\ Running("_get_type", "start")
    /\ LET f == Top
           d == heap[f.schema.v]
           proposed_name == IF Has(d, "title") THEN <<Get(d, "title").v>> ELSE f.name
           handler == IF Has(d, "enum") THEN "enum" ELSE f.stype
           e == get_type_handler(handler)
       IN IF e # ""
          THEN /\ Raise(e)
               /\ stack' = stack
          ELSE IF handler \in OtherAttributes
          THEN /\ Raise("TypeError")
               /\ stack' = stack
          ELSE CallFrom([f EXCEPT !.pc = "ret"],
                        Frame(handler, f.schema, proposed_name), scopes)
    /\ UNCHANGED <<heap, store, types, scopes, ref_type, policy, aside, outcome, calls, root, refs>>

(***************************************************************************)
(* APIv4: the handlers that call nothing                                   *)
(***************************************************************************)
\* a handler that builds its nodes from the mapping alone: the exception it
\* raises (or "") and the nodes it creates, the last of which it returns
Leaf(e, nodes) == [exc |-> e, nodes |-> nodes]

const(d) ==
    IF Has(d, "const") THEN Leaf("", <<LiteralType(Get(d, "const"))>>)
    ELSE Leaf("KeyError", <<>>)

enum(d, proposed_name) ==
    IF ~Has(d, "enum") THEN Leaf("KeyError", <<>>)
    ELSE IF Len(Get(d, "enum").v) = 0 THEN Leaf("AssertionError", <<>>)
    ELSE Leaf("", <<TypeEnum(get_name(d, proposed_name), Get(d, "enum"),
                             get_description(d))>>)

default(d) ==
    IF ~Has(d, "default") THEN Leaf("KeyError", <<>>)
    ELSE LET t == Get(d, "default").t
             type_ == CASE t = "str" -> "str"
                        [] t = "int" -> "int"
                        [] t = "float" -> "float"
                        [] t = "bool" -> "bool"
                        [] OTHER -> "Any"
         IN Leaf("", <<[BuiltinType(type_) EXCEPT !.comments =
                          <<Text("WARNING: default keyword not supported."),
                            Text("See: https://github.com/python/mypy/issues/6131")>>]>>)

\* Union[int, float]; b is the identity the base node gets
number(b) ==
    Leaf("", <<NativeType("Union"), BuiltinType("int"), BuiltinType("float"),
               CombinedType(b, <<b + 1, b + 2>>)>>)

LeafHandlers == {"const", "enum", "default", "boolean", "string", "number", "integer", "null"}

LeafResult(fn, d, proposed_name, b) ==
    CASE fn = "const" -> const(d)
      [] fn = "enum" -> enum(d, proposed_name)
      [] fn = "default" -> default(d)
      [] fn = "boolean" -> Leaf("", <<BuiltinType("bool")>>)
      [] fn = "string" -> Leaf("", <<BuiltinType("str")>>)
      [] fn = "number" -> number(b)
      [] fn = "integer" -> Leaf("", <<BuiltinType("int")>>)
      [] fn = "null" -> Leaf("", <<BuiltinType("None")>>)

RunLeaf(fn) ==
    /\ Running(fn, "start")
    /\ LET f == Top
           r == LeafResult(fn, heap[f.schema.v], f.name, Len(types) + 1)
       IN IF r.exc # ""
          THEN /\ Raise(r.exc)
               /\ UNCHANGED <<stack, types>>
          ELSE /\ types' = types \o r.nodes
               /\ Done(f, Len(types) + Len(r.nodes))
               /\ exc' = exc
    /\ UNCHANGED <<heap, store, scopes, ref_type, policy, aside, outcome, calls, root, refs>>

Const == RunLeaf("const")
Enum == RunLeaf("enum")
Default == RunLeaf("default")
Boolean == RunLeaf("boolean")
String == RunLeaf("string")
Number == RunLeaf("number")
Integer == RunLeaf("integer")
NullType == RunLeaf("null")

(***************************************************************************)
(* APIv4.object                                                            *)
(***************************************************************************)
\* Dict[str, Any] appended to ts; the new node is the last one
WithOpenDict(ts) ==
    LET b == Len(ts) + 1
    IN ts \o <<NativeType("Dict"), BuiltinType("str"), NativeType("Any"),
               CombinedType(b, <<b + 1, b + 2>>)>>

\* Dict[str, sub] appended to ts; the new node is the last one
WithDictOf(ts, sub) ==
    LET b == Len(ts) + 1
    IN ts \o <<NativeType("Dict"), BuiltinType("str"), CombinedType(b, <<b + 1, sub>>)>>

\* `if properties is not None:` in the place of line 560
HasPropertiesKey(h, properties) == properties.t = "dict"

\* line 560, `if properties:`
HasProperties(h, properties) == Truthy(h, properties)

\* lines 549-557: object up to the translation of `additionalProperties`
Object ==
    /\ Running("object", "start")
    /\ LET f == Top
           d == heap[f.schema.v]
           additional_properties == GetOr(d, "additionalProperties", Absent)
       IN IF additional_properties = Bool(TRUE) /\ policy = ALWAYS
          THEN /\ types' = WithOpenDict(types)
               /\ stack' = SetTop([f EXCEPT !.pc = "props", !.aux = Len(types) + 4])
               /\ exc' = exc
          ELSE IF additional_properties.t = "dict"
          THEN /\ CallFrom([f EXCEPT !.pc = "addl"],
                           Frame("get_type", additional_properties,
                                 Append(f.name, "additionalProperties")),
                           scopes)
               /\ types' = types
          ELSE /\ stack' = SetTop([f EXCEPT !.pc = "props"])
               /\ UNCHANGED <<types, exc>>
    /\ UNCHANGED <<heap, store, scopes, ref_type, policy, aside, outcome, calls, root, refs>>

\* line 557: the mapping type of the translated `additionalProperties`
ObjectAdditional ==
    /\ Running("object", "addl")
    /\ LET f == Top
       IN /\ types' = WithDictOf(types, f.rv)
          /\ stack' = SetTop([f EXCEPT !.pc = "props", !.aux = Len(types) + 3])
    /\ UNCHANGED <<heap, store, scopes, ref_type, policy, aside, exc, outcome, calls, root, refs>>

\* add_required, lines 563-569: the comments of the field's node afterwards
add_required(comments, prop, required) ==
    IF prop \in required
    THEN (IF comments # <<>> THEN Append(comments, Blank) ELSE comments) \o <<Text("required")>>
    ELSE comments

RequiredOf(d) ==
    LET r == GetOr(d, "required", List(<<>>)).v IN {r[j].v : j \in 1..Len(r)}

StructComments ==
    <<Text("WARNING: The required are not correctly taken in account,"),
      Text("See: https://www.python.org/dev/peps/pep-0655/")>>
UnionComments ==
    <<Blank,
      Text("WARNING: the Normally the types should be mised each other instead of Union."),
      Text("See: https://github.com/python/mypy/issues/6131")>>

\* lines 558-603: the loop over the properties and the node object returns
ObjectProperties ==
    /\ Running("object", "props")
    /\ LET f == Top
           d == heap[f.schema.v]
           name == get_name(d, f.name)
           proposed_name == IF Has(d, "title") THEN <<Get(d, "title").v>> ELSE f.name
           properties == GetOr(d, "properties", Absent)
           std_dict == f.aux
       IN IF HasProperties(heap, properties)
          THEN LET items == heap[properties.v]
                   \* the field translated last gets its "required" comment
                   ts1 == IF f.i > 0
                          THEN SetComments(types, f.rv,
                                   add_required(types[f.rv].comments, items[f.i].k,
                                                RequiredOf(d)))
                          ELSE types
                   acc == IF f.i > 0 THEN Append(f.acc, f.rv) ELSE f.acc
               IN IF f.i < Len(items)
                  THEN /\ types' = ts1
                       /\ CallFrom([f EXCEPT !.i = f.i + 1, !.acc = acc],
                                   [Frame("get_type", items[f.i + 1].v,
                                          Append(proposed_name, items[f.i + 1].k))
                                      EXCEPT !.auto_alias = FALSE],
                                   scopes)
                  ELSE LET props == [j \in 1..Len(items) |-> items[j].k]
                           typed == TypedDictType(
                                        IF std_dict = 0 THEN name ELSE Append(name, "Typed"),
                                        props, acc,
                                        IF std_dict = 0 THEN get_description(d) ELSE <<>>)
                           ts2 == Append(ts1, typed)
                           t == Len(ts2)
                       IN /\ exc' = exc
                          /\ IF std_dict = 0
                             THEN /\ types' = SetComments(ts2, t, StructComments)
                                  /\ Done(f, t)
                             ELSE /\ types' = SetComments(
                                                 WithCombined(ts2, "Union", <<std_dict, t>>),
                                                 t + 2, StructComments \o UnionComments)
                                  /\ Done(f, t + 2)
          ELSE /\ exc' = exc
               /\ IF std_dict # 0
                  THEN /\ types' = types
                       /\ Done(f, std_dict)
                  ELSE /\ types' = WithOpenDict(types)
                       /\ Done(f, Len(types) + 4)
    /\ UNCHANGED <<heap, store, scopes, ref_type, policy, aside, outcome, calls, root, refs>>

(***************************************************************************)
(* APIv4.array                                                             *)
(***************************************************************************)
\* line 615 without None in the set that is taken away
TupleWarningStrict(min_items, max_items, n) ==
    \E x \in {min_items, max_items} : x # Num(n)

\* line 615: {minItems, maxItems} - {None, len(items)} is not empty
TupleWarning(min_items, max_items, n) ==
    \E x \in {min_items, max_items} : ~IsNone(x) /\ x # Num(n)

TupleComments ==
    <<Text("WARNING: 'items': If list, must have minItems == maxItems."),
      Text("See: https://json-schema.org/understanding-json-schema/reference/array.html#tuple-validation")>>

\* lines 630-633 without the call of set_comments
ArrayWithoutItemsSilent == BuiltinType("None")

\* lines 630-633: the node for an array without `items`
ArrayWithoutItems ==
    [BuiltinType("None") EXCEPT !.comments =
        <<Text("WARNING: we get an array without any items")>>]

\* lines 607-611, 625-633: array up to its first call
Array ==
    /\ Running("array", "start")
    /\ LET f == Top
           d == heap[f.schema.v]
           items == GetOr(d, "items", Absent)
       IN CASE items = Bool(TRUE) ->
                 /\ types' = types \o <<NativeType("List"), NativeType("Any"),
                                        CombinedType(Len(types) + 1, <<Len(types) + 2>>)>>
                 /\ Done(f, Len(types) + 3)
                 /\ exc' = exc
            [] items = Bool(FALSE) ->
                 /\ Raise("NotImplementedError")
                 /\ UNCHANGED <<stack, types>>
            [] items.t = "list" ->
                 /\ stack' = SetTop([f EXCEPT !.pc = "items", !.subs = items.v])
                 /\ UNCHANGED <<types, exc>>
            [] IsNone(items) ->
                 /\ types' = Append(types, ArrayWithoutItems)
                 /\ Done(f, Len(types) + 1)
                 /\ exc' = exc
            [] OTHER ->
                 /\ CallFrom([f EXCEPT !.pc = "item"],
                             Frame("get_type", items, Append(f.name, "item")), scopes)
                 /\ types' = types
    /\ UNCHANGED <<heap, store, scopes, ref_type, policy, aside, outcome, calls, root, refs>>

\* lines 613-624: the tuple of the translated items
ArrayItems ==
    /\ Running("array", "items")
    /\ LET f == Top
           d == heap[f.schema.v]
           acc == IF f.i > 0 THEN Append(f.acc, f.rv) ELSE f.acc
       IN IF f.i < Len(f.subs)
          THEN /\ CallFrom([f EXCEPT !.i = f.i + 1, !.acc = acc],
                           Frame("get_type", f.subs[f.i + 1], <<"Base">>), scopes)
               /\ types' = types
          ELSE LET ts == WithCombined(types, "Tuple", acc)
               IN /\ types' = IF TupleWarning(GetOr(d, "minItems", Absent),
                                              GetOr(d, "maxItems", Absent), Len(f.subs))
                              THEN SetComments(ts, Len(ts), TupleComments)
                              ELSE ts
                  /\ Done(f, Len(ts))
                  /\ exc' = exc
    /\ UNCHANGED <<heap, store, scopes, ref_type, policy, aside, outcome, calls, root, refs>>

\* lines 626-629: the list of the translated `items` schema
ArrayItem ==
    /\ Running("array", "item")
    /\ LET f == Top
       IN /\ types' = WithCombined(types, "List", <<f.rv>>)
          /\ Done(f, Len(types) + 2)
    /\ UNCHANGED <<heap, store, scopes, ref_type, policy, aside, exc, outcome, calls, root, refs>>

(***************************************************************************)
(* APIv4.all_of and APIv4.any_of                                           *)
(***************************************************************************)
AllOfComments ==
    <<Text("WARNING: PEP 544 does not support an Intersection type,"),
      Text("so allOf is interpreted as a Union for now."),
      Text("See: https://github.com/python/typing/issues/213")>>

\* the loop over the sub-schemas and the union built from them
Composition(fn, word, comments) ==
    /\ Running(fn, "start")
    /\ LET f == Top
           acc == IF f.i > 0 THEN Append(f.acc, f.rv) ELSE f.acc
       IN IF f.i < Len(f.subs)
          THEN /\ CallFrom([f EXCEPT !.i = f.i + 1, !.acc = acc],
                           Frame("get_type", f.subs[f.i + 1],
                                 Append(f.name, word \o ToString(f.i))),
                           scopes)
               /\ types' = types
          ELSE LET ts == WithCombined(types, "Union", acc)
               IN /\ types' = SetComments(ts, Len(ts), comments)
                  /\ Done(f, Len(ts))
                  /\ exc' = exc
    /\ UNCHANGED <<heap, store, scopes, ref_type, policy, aside, outcome, calls, root, refs>>

AllOf == Composition("all_of", "allof", AllOfComments)
AnyOf == Composition("any_of", "anyof", <<>>)

(***************************************************************************)
(* APIv4.ref.  The resolver is a jsonschema RefResolver, which has a       *)
(* resolve method, so the branch of lines 720-727 is the one taken.        *)
(***************************************************************************)
SelfRefComments ==
    <<Text("WARNING: Forward references may not be supported."),
      Text("See: https://github.com/python/mypy/issues/731")>>

\* line 712-713, 730: the key under which ref_type holds the node of a reference
CacheKey(ref, url) == ref

\* line 729, `if ref:`
Cached(cache, ref, url, id) ==
    IF Truthy(<<>>, [t |-> "ref", v |-> ref]) THEN (CacheKey(ref, url) :> id) @@ cache
    ELSE cache

\* the record kept for a raw `$ref`: how often ref() entered get_type for it, the
\* nodes ref() returned for it, and the url it resolved to when its node was cached
RefInfo(ref) ==
    IF ref \in DOMAIN refs THEN refs[ref]
    ELSE [entered |-> 0, returned |-> {}, url |-> <<>>]
Noted(ref, info) == (ref :> info) @@ refs

\* lines 688-725: ref up to the call of object (for "#") or of get_type
Ref ==
    /\ Running("ref", "start")
    /\ LET f == Top
           d == heap[f.schema.v]
       IN IF ~Has(d, "$ref")
          THEN /\ Raise("KeyError")
               /\ UNCHANGED <<heap, stack, scopes, refs>>
          ELSE
          LET ref == Get(d, "$ref").v
              copy == Len(heap) + 1
              h1 == Append(heap, Del(d, "$ref"))
              g == [f EXCEPT !.ref = Get(d, "$ref"), !.x1 = Dict(copy)]
              r == Resolve(h1, store, scopes, ref)
          IN IF ref = SelfRef.v
             THEN /\ heap' = Append(h1, <<>>)
                  /\ CallFrom([g EXCEPT !.pc = "self"],
                              Frame("object", Dict(copy + 1), Append(f.name, "object")),
                              scopes)
                  /\ UNCHANGED <<scopes, refs>>
             ELSE IF CacheKey(ref, UrlJoin(scopes[Len(scopes)], ref)) \in DOMAIN ref_type
             THEN \* aux = 1 marks a node taken from ref_type
                  LET id == ref_type[CacheKey(ref, UrlJoin(scopes[Len(scopes)], ref))]
                  IN /\ heap' = h1
                     /\ Done([g EXCEPT !.aux = 1], id)
                     /\ refs' = Noted(ref, [RefInfo(ref) EXCEPT !.returned = @ \cup {id}])
                     /\ UNCHANGED <<scopes, exc>>
             ELSE IF ~r.ok
             THEN /\ heap' = h1
                  /\ Raise("RefResolutionError")
                  /\ stack' = SetTop(g)
                  /\ UNCHANGED <<scopes, refs>>
             ELSE IF r.v.t # "dict"
             THEN \* schema.update(resolved) fails inside the try
                  /\ heap' = h1
                  /\ scopes' = PushScope(scopes, r.url)
                  /\ Raise("TypeError")
                  /\ stack' = SetTop([g EXCEPT !.pc = "in_try"])
                  /\ refs' = refs
             ELSE /\ heap' = [h1 EXCEPT ![copy] = Update(h1[copy], h1[r.v.v])]
                  /\ scopes' = PushScope(scopes, r.url)
                  /\ refs' = Noted(ref, [RefInfo(ref) EXCEPT !.entered = @ + 1])
                  /\ CallFrom([g EXCEPT !.pc = "in_try"],
                              Frame("get_type", Dict(copy), f.name),
                              PushScope(scopes, r.url))
    /\ UNCHANGED <<store, types, ref_type, policy, aside, outcome, calls, root>>

\* lines 703-710: the placeholder for "#" gets its warning
RefSelf ==
    /\ Running("ref", "self")
    /\ LET f == Top
       IN /\ types' = SetComments(types, f.rv, SelfRefComments)
          /\ Done(f, f.rv)
          /\ refs' = Noted(f.ref.v, [RefInfo(f.ref.v) EXCEPT !.returned = @ \cup {f.rv}])
    /\ UNCHANGED <<heap, store, scopes, ref_type, policy, aside, exc, outcome, calls, root>>

\* lines 726-731 after get_type has returned: the scope is popped and the node
\* is stored in ref_type
RefAfter ==
    /\ Running("ref", "in_try")
    /\ LET f == Top
       IN /\ scopes' = PopScope(scopes)
          /\ ref_type' = Cached(ref_type, f.ref.v, UrlJoin(f.scopes0[Len(f.scopes0)], f.ref.v),
                                f.rv)
          /\ Done(f, f.rv)
          /\ refs' = Noted(f.ref.v, [RefInfo(f.ref.v) EXCEPT
                                       !.returned = @ \cup {f.rv},
                                       !.url = <<UrlJoin(f.scopes0[Len(f.scopes0)], f.ref.v)>>])
    /\ UNCHANGED <<heap, store, types, policy, aside, exc, outcome, calls, root>>

\* lines 726-727 when the try block raised: the scope is popped and the
\* exception goes on
Finally ==
    /\ stack # <<>>
    /\ exc # ""
    /\ InTry(Top)
    /\ scopes' = PopScope(scopes)
    /\ stack' = SetTop([Top EXCEPT !.pc = "finally"])
    /\ UNCHANGED <<heap, store, types, ref_type, policy, aside, exc, outcome, calls, root, refs>>

(***************************************************************************)
(* get_name with upper=True, as TypeEnum.definition calls it.  It works on *)
(* the characters of the name, so here a string is the sequence of its     *)
(* characters.                                                             *)
(***************************************************************************)
\* the characters of the strings that are enum values in the documents below
Characters(s) ==
    CASE s = "a" -> <<"a">>
      [] s = "b" -> <<"b">>
      [] s = "red" -> <<"r", "e", "d">>
      [] s = "green" -> <<"g", "r", "e", "e", "n">>
      [] s = "Red" -> <<"R", "e", "d">>
      [] s = "a b" -> <<"a", " ", "b">>
      [] s = "a-b" -> <<"a", "-", "b">>
      [] s = "1" -> <<"1">>
      [] s = "none" -> <<"n", "o", "n", "e">>
      [] s = "no" -> <<"n", "o">>
      [] s = "" -> <<>>

\* str(value) for an enum value that is no string (line 162)
str(value) ==
    CASE value.t = "int" ->
            (IF value.v < 0 THEN <<"-">> ELSE <<>>)
                \o <<CASE value.v \in {0} -> "0"
                       [] value.v \in {1, -1} -> "1"
                       [] value.v \in {2, -2} -> "2"
                       [] OTHER -> "3">>
      [] value.t = "bool" -> IF value.v THEN <<"T", "r", "u", "e">>
                                        ELSE <<"F", "a", "l", "s", "e">>
      [] value.t = "null" -> <<"N", "o", "n", "e">>

LowerCase ==
    <<"a", "b", "c", "d", "e", "f", "g", "h", "i", "j", "k", "l", "m",
      "n", "o", "p", "q", "r", "s", "t", "u", "v", "w", "x", "y", "z">>
UpperCase ==
    <<"A", "B", "C", "D", "E", "F", "G", "H", "I", "J", "K", "L", "M",
      "N", "O", "P", "Q", "R", "S", "T", "U", "V", "W", "X", "Y", "Z">>
Digits == {"0", "1", "2", "3", "4", "5", "6", "7", "8", "9"}
Range(q) == {q[i] : i \in 1..Len(q)}
IndexIn(q, c) == CHOOSE i \in 1..Len(q) : q[i] = c
\* str.upper and str.lower, character by character
upper(name) ==
    [i \in 1..Len(name) |->
        IF name[i] \in Range(LowerCase) THEN UpperCase[IndexIn(LowerCase, name[i])]
        ELSE name[i]]
lower(name) ==
    [i \in 1..Len(name) |->
        IF name[i] \in Range(UpperCase) THEN LowerCase[IndexIn(UpperCase, name[i])]
        ELSE name[i]]

\* line 216
authorised_char == Range(LowerCase) \cup Range(UpperCase) \cup Digits

\* lines 222-256
PythonKeywords ==
    {
      <<"a", "n", "d">>, <<"a", "s">>, <<"a", "s", "s", "e", "r", "t">>,
      <<"b", "r", "e", "a", "k">>, <<"c", "l", "a", "s", "s">>,
      <<"c", "o", "n", "t", "i", "n", "u", "e">>, <<"d", "e", "f">>, <<"d", "e", "l">>,
      <<"e", "l", "i", "f">>, <<"e", "l", "s", "e">>, <<"e", "x", "c", "e", "p", "t">>,
      <<"f", "a", "l", "s", "e">>, <<"f", "i", "n", "a", "l", "l", "y">>,
      <<"f", "o", "r">>, <<"f", "r", "o", "m">>, <<"g", "l", "o", "b", "a", "l">>,
      <<"i", "f">>, <<"i", "m", "p", "o", "r", "t">>, <<"i", "n">>, <<"i", "s">>,
      <<"l", "a", "m", "b", "d", "a">>, <<"n", "o", "n", "e">>,
      <<"n", "o", "n", "l", "o", "c", "a", "l">>, <<"n", "o", "t">>, <<"o", "r">>,
      <<"p", "a", "s", "s">>, <<"r", "a", "i", "s", "e">>,
      <<"r", "e", "t", "u", "r", "n">>, <<"t", "r", "u", "e">>, <<"t", "r", "y">>,
      <<"w", "h", "i", "l", "e">>, <<"w", "i", "t", "h">>, <<"y", "i", "e", "l", "d">>
    }

\* get_name({"title": title}, upper=True), lines 208-262: the exception raised
\* (or "") and the identifier.  unidecode leaves the characters used here as
\* they are.
get_name_upper(title) ==
    LET spaced == [i \in 1..Len(title) |->
                      IF title[i] \in authorised_char THEN title[i] ELSE " "]
        numbered == IF spaced[1] \in Digits THEN <<"n", "u", "m", " ">> \o spaced
                    ELSE spaced
        named == IF lower(numbered) \in PythonKeywords
                 THEN numbered \o <<" ", "n", "a", "m", "e">>
                 ELSE numbered
    IN IF title = <<>> THEN [exc |-> "IndexError", name |-> <<>>]
       ELSE [exc |-> "",
             name |-> [i \in 1..Len(named) |->
                          IF upper(named)[i] = " " THEN "_" ELSE upper(named)[i]]]

(***************************************************************************)
(* TypeEnum.definition                                                     *)
(***************************************************************************)
NotRendered == [node |-> 0, exc |-> "", lines |-> <<>>]
Line(kind, ident, value) == [kind |-> kind, ident |-> ident, value |-> value]

\* lines 160-163: the identifier get_name gives for one value of the enum
MemberName(value) ==
    get_name_upper(IF value.t = "str" THEN Characters(value.v) ELSE str(value))

\* lines 154-164: the lines of the class, or the exception get_name raised
definition(node) ==
    LET values == node.value.v
        failed == {i \in 1..Len(values) : MemberName(values[i]).exc # ""}
    IN IF failed # {}
       THEN [exc |-> MemberName(values[CHOOSE i \in failed : \A j \in failed : i <= j]).exc,
             lines |-> <<>>]
       ELSE [exc |-> "",
             lines |-> <<Line("blank", <<>>, Null), Line("blank", <<>>, Null)>>
                       \o [i \in 1..Len(node.descriptions) |->
                              Line("comment", <<>>, node.descriptions[i].v)]
                       \o <<Line("class", node.name, Null)>>
                       \o [i \in 1..Len(values) |->
                              Line("member", MemberName(values[i]).name, values[i])]]

\* the definition of an Enum node is asked for once the translation has returned
Definition ==
    /\ stack = <<>>
    /\ outcome.status = "returned"
    /\ rendered = NotRendered
    /\ \E id \in 1..Len(types) :
          /\ types[id].cls = "TypeEnum"
          /\ rendered' = [node |-> id, exc |-> definition(types[id]).exc,
                          lines |-> definition(types[id]).lines]
    /\ UNCHANGED <<heap, store, types, scopes, ref_type, policy, stack, exc, outcome, calls,
                   root, refs, engine, previous, loaded>>

(***************************************************************************)
(* A further engine on the same document                                   *)
(***************************************************************************)
\* the tree of nodes under node id: what the IR is, node identities aside
RECURSIVE IR(_, _)
IR(ts, id) ==
    LET n == ts[id]
    IN [cls |-> n.cls, name |-> n.name, value |-> n.value, props |-> n.props,
        comments |-> n.comments, descriptions |-> n.descriptions,
        base |-> IF n.base = 0 THEN <<>> ELSE <<IR(ts, n.base)>>,
        subs |-> [j \in 1..Len(n.subs) |-> IR(ts, n.subs[j])]]

\* how a translation ended: the exception, or the IR returned
Translation(o, ts) ==
    [status |-> o.status, exc |-> o.exc,
     ir |-> IF o.status = "returned" THEN <<IR(ts, o.value)>> ELSE <<>>]
NoTranslation == [status |-> "none", exc |-> "", ir |-> <<>>]

\* API.__init__ once more, on a resolver made anew for the same document
\* object: the cache is empty and the scope stack holds the base URI, the
\* mappings of the document are as the engine before left them
Construct ==
    /\ stack = <<>>
    /\ outcome # NoOutcome
    /\ engine < MaxEngines
    /\ engine' = engine + 1
    /\ previous' = Translation(outcome, types)
    /\ ref_type' = EmptyMap
    /\ scopes' = <<Uri("", <<>>)>>
    /\ refs' = EmptyMap
    /\ outcome' = NoOutcome
    /\ calls' = 0
    /\ rendered' = NotRendered
    /\ UNCHANGED <<heap, store, types, policy, stack, exc, root, loaded>>

(***************************************************************************)
(* The schema documents translated.  A case is a sequence of documents;    *)
(* the first one is the root schema handed to get_type, stored under the   *)
(* base URI "", the others are stored under their names.                   *)
(***************************************************************************)
Doc(name, tree) == [name |-> name, tree |-> tree]
T(type) == Obj(<<KV("type", Str(type))>>)
Id(doc) == KV("$id", RefStr(doc, <<>>))
RefTo(doc, ptr) == Obj(<<KV("$ref", RefStr(doc, ptr))>>)
Local(name) == RefTo("", <<"definitions", name>>)
Props(kvs) == KV("properties", Obj(kvs))

\* definitions shared by the root documents below
Definitions ==
    KV("definitions", Obj(<<
        KV("x", T("integer")),
        KV("y", Obj(<<KV("type", Str("string")), KV("description", Str("a y"))>>)),
        KV("scoped", Obj(<<Id("b"), KV("const", Num(1))>>)),
        KV("bad", Obj(<<KV("type", Str("array")), KV("items", Bool(FALSE))>>)),
        KV("flag", Bool(TRUE)),
        KV("node", Obj(<<KV("type", Str("object")),
                         Props(<<KV("child", Local("node"))>>)>>)),
        KV("ping", Obj(<<KV("type", Str("array")), KV("items", Local("pong"))>>)),
        KV("pong", Obj(<<KV("anyOf", List(<<Local("ping"), T("null")>>))>>))
    >>))

\* the second document: its definitions/x is another schema than the root's
DocB ==
    Doc("b", Obj(<<
        KV("type", Str("object")),
        Props(<<KV("q", Local("x"))>>),
        KV("definitions", Obj(<<KV("x", T("boolean"))>>))
    >>))

\* one body for every way _get_type_internal dispatches
Bodies ==
    { <<KV("if", Obj(<<Props(<<KV("k", T("string"))>>)>>)),
        KV("then", Obj(<<Props(<<KV("v", T("integer"))>>)>>)),
        KV("else", Obj(<<KV("type", Str("object"))>>))>>,
      <<KV("if", Obj(<<>>)), KV("then", T("object"))>>,
      <<KV("$ref", RefStr("", <<"definitions", "x">>))>>,
      <<KV("const", Str("red"))>>,
      <<KV("type", List(<<Str("string"), Str("integer")>>)), KV("title", Str("Both"))>>,
      <<KV("type", List(<<Str("object"), Str("mystery")>>))>>,
      <<KV("allOf", List(<<T("string"), Local("x")>>))>>,
      <<KV("anyOf", List(<<T("string"), T("null")>>))>>,
      <<KV("oneOf", List(<<Local("x"), T("number")>>))>>,
      <<KV("enum", List(<<Str("a"), Str("b")>>))>>,
      <<KV("enum", List(<<>>))>>,
      <<KV("default", Num(3))>>,
      <<KV("description", Str("nothing"))>>,
      <<KV("type", Num(7))>>,
      <<KV("type", Str("object")), Props(<<KV("p", Local("x")), KV("r", Local("x"))>>),
        KV("required", List(<<Str("p")>>))>>,
      <<KV("type", Str("array")), KV("items", Local("x"))>> }
    \cup { <<KV("type", Str(t))>> :
             t \in {"object", "array", "string", "number", "integer", "boolean", "null"} }

DispatchCases ==
    { <<Doc("", Obj(pre \o body \o <<Definitions>>)), DocB>> :
        pre \in {<<>>, <<Id("b")>>, <<Id("nowhere")>>}, body \in Bodies }

\* type strings that name no JSON type
TypeCases ==
    { <<Doc("", Obj(<<KV("type", Str(t))>> \o extra))>> :
        t \in {"mystery", "", "default", "const", "enum", "ref", "get_type", "all_of",
               "any_of", "get_type_handler", "resolver", "additional_properties",
               "ref_type", "_get_type", "__init__"},
        extra \in {<<>>, <<KV("default", Num(1))>>, <<KV("title", Str("T")), Id("b")>>} }

\* arrays: every shape of `items`, with minItems and maxItems absent or 0..MaxItems+1
Counts == {Absent} \cup {Num(n) : n \in 0..(MaxItems + 1)}
Optional(k, v) == IF v = Absent THEN <<>> ELSE <<KV(k, v)>>
ItemSchemas == <<T("integer"), T("string"), T("boolean"), T("null")>>
ItemLists == {List(SubSeq(ItemSchemas, 1, n)) : n \in 0..MaxItems}
ArrayCases ==
    { <<Doc("", Obj(<<KV("type", Str("array"))>> \o Optional("items", items)
                    \o Optional("minItems", lo) \o Optional("maxItems", hi)))>> :
        items \in ItemLists, lo \in Counts, hi \in Counts }
    \cup
    { <<Doc("", Obj(<<KV("type", Str("array"))>> \o Optional("items", items)
                    \o Optional("minItems", lo)))>> :
        items \in {Absent, Null, Bool(TRUE), Bool(FALSE), T("number"),
                   List(<<T("array"), Bool(FALSE)>>), List(<<Bool(TRUE)>>)},
        lo \in {Absent, Num(1)} }

\* objects: `properties` absent, empty or not; every kind of additionalProperties
ObjectCases ==
    { <<Doc("", Obj(<<KV("type", Str("object"))>> \o title \o Optional("properties", properties)
                    \o Optional("additionalProperties", additional) \o required))>> :
        title \in {<<>>, <<KV("title", Str("Thing"))>>},
        properties \in {Absent, Obj(<<>>), Obj(<<KV("x", T("integer"))>>),
                        Obj(<<KV("x", T("integer")), KV("y", T("array"))>>),
                        Obj(<<KV("x", T("mystery"))>>)},
        additional \in {Absent, Bool(TRUE), Bool(FALSE), T("string"), Obj(<<>>)},
        required \in {<<>>, <<KV("required", List(<<Str("x"), Str("y")>>))>>} }

\* references: shared, cyclic, to the root, missing, failing, scoped, empty
RefCases ==
    { <<Doc("", Obj(<<KV("type", Str("object")), Props(props), Definitions>>)), DocB>> :
        props \in {
            <<KV("a", Local("x")), KV("b", Local("x"))>>,
            <<KV("a", Local("y")),
              KV("b", Obj(<<KV("$ref", RefStr("", <<"definitions", "y">>)),
                            KV("description", Str("again"))>>))>>,
            <<KV("a", Local("node"))>>,
            <<KV("a", Local("ping")), KV("b", Local("ping"))>>,
            <<KV("a", Obj(<<KV("$ref", SelfRef)>>)), KV("b", Obj(<<KV("$ref", SelfRef)>>))>>,
            <<KV("a", Local("missing"))>>,
            <<KV("a", Local("bad"))>>,
            <<KV("a", Local("flag"))>>,
            <<KV("a", Local("scoped")), KV("b", Local("x"))>>,
            <<KV("a", Local("x")), KV("b", RefTo("b", <<>>))>>,
            <<KV("a", RefTo("b", <<>>)), KV("b", Local("x"))>>,
            <<KV("a", RefTo("c", <<>>))>>,
            <<KV("a", Obj(<<KV("$ref", EmptyRef)>>))>>,
            <<KV("a", Obj(<<Id("b"), KV("type", Str("object")),
                            Props(<<KV("in", Local("x"))>>)>>)),
              KV("b", Local("x"))>>,
            <<KV("a", Obj(<<Id("b"), KV("type", Str("array")), KV("items", Local("x"))>>))>>,
            <<KV("a", Obj(<<Id("b"), KV("anyOf", List(<<Local("x"), Local("x")>>))>>)),
              KV("b", Local("x"))>>,
            <<KV("a", Obj(<<Id("b"), KV("type", Str("object")),
                            KV("additionalProperties", Local("x"))>>))>>
        } }

\* enums: values of every kind, alike in spelling or not
EnumCases ==
    { <<Doc("", Obj(title \o <<KV("enum", List(values))>>))>> :
        title \in {<<>>, <<KV("title", Str("Colour"))>>},
        values \in { <<Str("red"), Str("green")>>,
                     <<Str("red"), Str("Red")>>,
                     <<Str("a b"), Str("a-b")>>,
                     <<Str("1"), Num(1)>>,
                     <<Str("none"), Null>>,
                     <<Bool(TRUE), Str("no"), Num(2)>>,
                     <<Num(1), Num(-1)>>,
                     <<Str("")>> } }

\* conditionals: `if`, `then` and `else` written out, referred to or absent, in a
\* schema with or without properties of its own, at the root or after a sibling
\* that refers to the definition `then` and `else` refer to
Conditional(own, if, then, else) ==
    <<KV("type", Str("object"))>> \o own \o <<KV("if", if)>>
        \o Optional("then", then) \o Optional("else", else)
IfDefinitions ==
    KV("definitions", Obj(<<
        KV("rec", Obj(<<KV("type", Str("object")), Props(<<KV("p", T("string"))>>)>>)),
        KV("cond", Obj(<<Props(<<KV("k", T("string"))>>)>>))
    >>))
IfCases ==
    { <<Doc("", Obj(IF nested
                    THEN <<KV("type", Str("object")),
                           Props(<<KV("a", Local("rec")),
                                   KV("b", Obj(Conditional(own, if, then, else)))>>),
                           IfDefinitions>>
                    ELSE Conditional(own, if, then, else) \o <<IfDefinitions>>))>> :
        nested \in BOOLEAN,
        own \in {<<>>, <<Props(<<KV("p", T("integer"))>>)>>},
        if \in {Obj(<<Props(<<KV("k", T("string"))>>)>>), Local("cond")},
        then \in {Absent, Obj(<<Props(<<KV("v", T("integer"))>>)>>), Local("rec")},
        else \in {Absent, Obj(<<Props(<<KV("e", T("boolean"))>>)>>), Local("rec")} }

Cases ==
    DispatchCases \cup TypeCases \cup ArrayCases \cup ObjectCases \cup RefCases
        \cup EnumCases \cup IfCases

\* the heap holding the documents, and the store naming their roots
LoadDocs(docs) ==
    LET trees == [i \in 1..Len(docs) |-> docs[i].tree]
    IN [h |-> FlatSeq(trees, 1, 1),
        st |-> [n \in {docs[i].name : i \in 1..Len(docs)} |->
                  LET i == CHOOSE j \in 1..Len(docs) : docs[j].name = n
                  IN 1 + SizeSeq(trees, i - 1)]]

(***************************************************************************)
(* The specification                                                       *)
(***************************************************************************)
\* a new engine on a resolver made for the root schema (RefResolver.from_schema):
\* the scope stack holds the base URI, the cache is empty
Init ==
    \E c \in Cases, p \in {ALWAYS, ONLY_EXPLICIT} :
        LET l == LoadDocs(c)
        IN /\ heap = l.h
           /\ store = l.st
           /\ root = Dict(l.st[""])
           /\ policy = p
           /\ types = <<>>
           /\ scopes = <<Uri("", <<>>)>>
           /\ ref_type = EmptyMap
           /\ stack = <<>>
           /\ exc = ""
           /\ outcome = NoOutcome
           /\ calls = 0
           /\ refs = EmptyMap
           /\ engine = 1
           /\ previous = NoTranslation
           /\ rendered = NotRendered
           /\ loaded = l.h

Next ==
    \/ Start
    \/ GetType
    \/ GetTypeAfter
    \/ Internal
    \/ IfThen
    \/ IfElse
    \/ TypeList
    \/ TailReturn
    \/ GetTypeOf
    \/ Const
    \/ Enum
    \/ Default
    \/ Boolean
    \/ String
    \/ Number
    \/ Integer
    \/ NullType
    \/ Object
    \/ ObjectAdditional
    \/ ObjectProperties
    \/ Array
    \/ ArrayItems
    \/ ArrayItem
    \/ AllOf
    \/ AnyOf
    \/ Ref
    \/ RefSelf
    \/ RefAfter
    \/ Finally
    \/ Return
    \/ Unwind
    \/ Definition
    \/ Construct

Spec == Init /\ [][Next]_vars

(***************************************************************************)
(* What the claims speak about                                             *)
(***************************************************************************)
\* the top activation has ended: it is about to return, or an exception is
\* passing through it
Ended(f) == f.pc = "done" \/ (exc # "" /\ ~InTry(f))
TopIs(fn) == stack # <<>> /\ Top.fn = fn
SchemaOf(f) == heap[f.schema.v]
HasId(d) == Truthy(heap, GetOr(d, "$id", EmptyRef))

\* C1: whenever _get_type_internal ends for a schema with a non-empty `$id`, by
\* returning or by raising, the scope stack is what it was when the call started.
C1_ScopeRestoredOnEveryExit ==
    (TopIs("_get_type_internal") /\ Top.pushed /\ Ended(Top)) => scopes = Top.scopes0

\* C2: whenever ref() ends for a `$ref` other than "#", by returning or by raising,
\* the scope stack is as deep as it was when ref() started.
C2_RefLeavesDepthUnchanged ==
    (TopIs("ref") /\ Top.ref # SelfRef /\ (Top.pc \in {"done", "finally"}))
        => Len(scopes) = Len(Top.scopes0)

\* a reference the cache is kept for: neither "#" nor the empty string
Cacheable(r) == r # SelfRef.v /\ r # EmptyRef.v

\* C3: for every `$ref` value (here even leaving "#" and "" aside), ref() has
\* entered get_type at most once and every call of ref() for it has returned one
\* and the same node.
C3_OneNodeOneTranslationPerRef ==
    \A r \in DOMAIN refs :
        Cacheable(r) => refs[r].entered <= 1 /\ Cardinality(refs[r].returned) <= 1

\* C4: a `$ref` met again while its own referent is being translated is not
\* descended into again, so the translation never runs into the recursion limit
\* inside a reference.
C4_SelfReferenceTerminates ==
    /\ \A i, j \in 1..Len(stack) :
          (i < j /\ InTry(stack[i]) /\ InTry(stack[j]) /\ Cacheable(stack[i].ref.v))
              => stack[i].ref # stack[j].ref
    /\ ~(/\ exc = "RecursionError"
         /\ \E i \in 1..Len(stack) : InTry(stack[i]) /\ Cacheable(stack[i].ref.v))

\* C5: a node taken from ref_type was produced for the very url the reference
\* resolves to under the scope active at the call site.
C5_CacheHitMatchesResolvedUri ==
    (TopIs("ref") /\ Top.pc = "done" /\ Top.aux = 1)
        => refs[Top.ref.v].url = <<UrlJoin(Top.scopes0[Len(Top.scopes0)], Top.ref.v)>>

\* C6: while a handler translates a sub-schema of a schema that carries `$id`,
\* that `$id` is on the scope stack the sub-schema is translated under.
C6_IdScopeCoversSubSchemas ==
    \A i \in 1..(Len(stack) - 1) :
        (/\ stack[i].fn \in {"object", "array", "all_of", "any_of"}
         /\ stack[i].schema.t = "dict"
         /\ HasId(SchemaOf(stack[i])))
        => \E k \in 1..Len(stack[i + 1].scopes0) :
              stack[i + 1].scopes0[k] = Get(SchemaOf(stack[i]), "$id").v

JsonTypes == {"object", "array", "string", "number", "integer", "boolean", "null"}
Plain(d) == ~Has(d, "if") /\ ~Has(d, "$ref") /\ ~Has(d, "const") /\ ~Has(d, "enum")

\* C7: _get_type returns no node for a schema without if, $ref, const and enum whose
\* type is a single string that names no JSON type, and array returns no node for
\* `items: false`.
C7_UnsupportedNeverReturnsNode ==
    /\ (/\ TopIs("_get_type")
        /\ Plain(SchemaOf(Top))
        /\ GetOr(SchemaOf(Top), "type", Absent) = Str(Top.stype)
        /\ Top.stype \notin JsonTypes)
       => Top.pc # "done"
    /\ (TopIs("array") /\ GetOr(SchemaOf(Top), "items", Absent) = Bool(FALSE))
       => Top.pc # "done"

\* the node an activation of array or object is about to return
Result == types[Top.rv]
ArrayReturns == TopIs("array") /\ Top.pc = "done"
ObjectReturns == TopIs("object") /\ Top.pc = "done"
ItemsOf(f) == GetOr(SchemaOf(f), "items", Absent)
MinItemsKey == GetOr(SchemaOf(Top), "minItems", Absent)
MaxItemsKey == GetOr(SchemaOf(Top), "maxItems", Absent)
IsGeneric(node, base, n) ==
    node.cls = "CombinedType" /\ types[node.base] = NativeType(base) /\ Len(node.subs) = n
IsListOfAny(node) == IsGeneric(node, "List", 1) /\ types[node.subs[1]] = NativeType("Any")
IsOpenMapping(node) ==
    /\ IsGeneric(node, "Dict", 2)
    /\ types[node.subs[1]] = BuiltinType("str")
    /\ types[node.subs[2]] = NativeType("Any")
HasWarning(node) == node.comments # <<>>

\* C8 (as in the claim): the tuple for an `items` list of length n has arity n, and it
\* is without warning exactly when minItems and maxItems are both present and equal n.
C8_WarningUnlessBothPinned ==
    (ArrayReturns /\ ItemsOf(Top).t = "list") =>
        LET n == Len(ItemsOf(Top).v)
        IN /\ IsGeneric(Result, "Tuple", n)
           /\ ~HasWarning(Result) <=> (MinItemsKey = Num(n) /\ MaxItemsKey = Num(n))

\* C8 (amended): the tuple for an `items` list of length n has arity n, and it is
\* without warning exactly when each of minItems and maxItems is absent or equals n.
C8_WarningOnlyForMismatch ==
    (ArrayReturns /\ ItemsOf(Top).t = "list") =>
        LET n == Len(ItemsOf(Top).v)
        IN /\ IsGeneric(Result, "Tuple", n)
           /\ ~HasWarning(Result) <=>
                 ((IsNone(MinItemsKey) \/ MinItemsKey = Num(n)) /\ (IsNone(MaxItemsKey) \/ MaxItemsKey = Num(n)))
           /\ HasWarning(Result) =>
                 Result.comments[1] = Text("WARNING: 'items': If list, must have minItems == maxItems.")

\* a tuple of MaxItems items is returned without warning for a schema that has
\* neither minItems nor maxItems
C8_Witness ==
    /\ ArrayReturns
    /\ ItemsOf(Top).t = "list"
    /\ Len(ItemsOf(Top).v) = MaxItems
    /\ MinItemsKey = Absent
    /\ MaxItemsKey = Absent
    /\ IsGeneric(Result, "Tuple", MaxItems)
    /\ ~HasWarning(Result)

\* C9 (as in the claim): array returns list-of-any for `items: true` and for absent
\* `items`, with a warning in the absent case.
C9_AbsentItemsIsListOfAny ==
    /\ (ArrayReturns /\ ItemsOf(Top) = Bool(TRUE)) => IsListOfAny(Result)
    /\ (ArrayReturns /\ IsNone(ItemsOf(Top))) => (IsListOfAny(Result) /\ HasWarning(Result))

\* C9 (amended): array returns list-of-any without comment for `items: true`; for
\* absent `items` it returns the builtin None carrying the warning comment.
C9_AbsentItemsIsNoneWithWarning ==
    /\ (ArrayReturns /\ ItemsOf(Top) = Bool(TRUE)) =>
          (IsListOfAny(Result) /\ ~HasWarning(Result))
    /\ (ArrayReturns /\ IsNone(ItemsOf(Top))) =>
          /\ Result.cls = "BuiltinType"
          /\ Result.name = <<"None">>
          /\ Result.comments = <<Text("WARNING: we get an array without any items")>>

\* array has returned for a schema without `items`
C9_Witness ==
    /\ ArrayReturns
    /\ ItemsOf(Top) = Absent
    /\ Result.cls = "BuiltinType"
    /\ HasWarning(Result)

PropertiesOf(f) == GetOr(SchemaOf(f), "properties", Absent)
AdditionalOf(f) == GetOr(SchemaOf(f), "additionalProperties", Absent)
IsStruct(node, properties) ==
    /\ node.cls = "TypedDictType"
    /\ node.props = [j \in 1..Len(heap[properties.v]) |-> heap[properties.v][j].k]
    /\ Len(node.subs) = Len(node.props)
IsUnionOfMappingAndStruct(node, properties) ==
    /\ IsGeneric(node, "Union", 2)
    /\ IsOpenMapping(types[node.subs[1]])
    /\ IsStruct(types[node.subs[2]], properties)

\* C10 (as in the claim): with `properties` present, be it empty, object returns a
\* Struct when additionalProperties is absent, and the union of an open mapping and
\* the Struct when additionalProperties is true under the ALWAYS policy.
C10_StructForAnyProperties ==
    (ObjectReturns /\ PropertiesOf(Top).t = "dict") =>
        /\ AdditionalOf(Top) = Absent => IsStruct(Result, PropertiesOf(Top))
        /\ (AdditionalOf(Top) = Bool(TRUE) /\ policy = ALWAYS)
              => IsUnionOfMappingAndStruct(Result, PropertiesOf(Top))

\* C10 (amended): the same for a non-empty `properties`; with an empty `properties`
\* object returns the open mapping Dict[str, Any] in both cases, and no Struct.
C10_StructForNonEmptyProperties ==
    (ObjectReturns /\ PropertiesOf(Top).t = "dict") =>
        IF Len(heap[PropertiesOf(Top).v]) > 0
        THEN /\ AdditionalOf(Top) = Absent => IsStruct(Result, PropertiesOf(Top))
             /\ (AdditionalOf(Top) = Bool(TRUE) /\ policy = ALWAYS)
                   => IsUnionOfMappingAndStruct(Result, PropertiesOf(Top))
        ELSE (AdditionalOf(Top) = Absent \/ (AdditionalOf(Top) = Bool(TRUE) /\ policy = ALWAYS))
                   => IsOpenMapping(Result)

\* object has returned the union for a schema with two properties and
\* additionalProperties: true under ALWAYS
C10_Witness ==
    /\ ObjectReturns
    /\ PropertiesOf(Top).t = "dict"
    /\ Len(heap[PropertiesOf(Top).v]) > 1
    /\ AdditionalOf(Top) = Bool(TRUE)
    /\ policy = ALWAYS
    /\ IsUnionOfMappingAndStruct(Result, PropertiesOf(Top))

\* the member lines of the definition last rendered
Members == SelectSeq(rendered.lines, LAMBDA l : l.kind = "member")
Distinct(q) == \A i, j \in 1..Len(q) : i # j => q[i] # q[j]

\* C11: when TypeEnum.definition has given the lines of an Enum node whose values
\* are distinct, there is one member line per value and no two member lines have
\* the same identifier.
C11_OneMemberPerValueDistinctNames ==
    (rendered.node # 0 /\ rendered.exc = "" /\ Distinct(types[rendered.node].value.v)) =>
        /\ Len(Members) = Len(types[rendered.node].value.v)
        /\ Distinct([i \in 1..Len(Members) |-> Members[i].ident])

\* the names of the properties of the mapping d, whose `properties` is held in h
PropertyNames(h, d) ==
    IF Has(d, "properties") /\ Get(d, "properties").t = "dict"
    THEN {h[Get(d, "properties").v][j].k : j \in 1..Len(h[Get(d, "properties").v])}
    ELSE {}
\* an activation of _get_type_internal for a conditional schema of the document,
\* after the then branch and before the union is built
InElseBranch(f) ==
    /\ f.fn = "_get_type_internal"
    /\ f.pc = "if_else"
    /\ ~f.pushed
    /\ f.schema.v <= Len(loaded)

\* C12: while the else branch of a conditional schema is translated, every property
\* of the else schema is a property of the base schema or of the dereferenced
\* `else` schema, as the document has them: nothing comes from `if`.
C12_ElseBranchHasNothingFromIf ==
    \A i \in 1..Len(stack) :
        InElseBranch(stack[i]) =>
            PropertyNames(heap, heap[stack[i].x2.v]) \subseteq
                (PropertyNames(loaded, BaseSchema(loaded[stack[i].schema.v]))
                 \cup PropertyNames(loaded,
                        ResolveRefIn(loaded, store, stack[i].scopes0,
                                     GetOr(loaded[stack[i].schema.v], "else", Absent)).d))

\* C13: when a second engine, constructed anew on the document the first engine has
\* translated, has finished its translation, it has ended as the first did: with
\* the same exception, or with the same IR (structure, names and comments).
C13_SecondEngineGivesSameIR ==
    (engine > 1 /\ stack = <<>> /\ outcome # NoOutcome) =>
        Translation(outcome, types) = previous

\* C14: every mapping of the input document has, at any moment during and after the
\* translations, the keys and values it had when the document was handed over.
C14_DocumentUnchanged ==
    \A a \in 1..Len(loaded) : heap[a] = loaded[a]

\* the Struct among what object returns: the node itself, or the second member of
\* the union with the open mapping
StructOf(node) == IF node.cls = "TypedDictType" THEN node ELSE types[node.subs[2]]
Times(comments, line) == Cardinality({i \in 1..Len(comments) : comments[i] = line})

\* C15: when object returns a Struct, the node of a field carries the comment
\* "required" only if the field is named in `required` of the Struct's schema, and
\* not more than once.
C15_RequiredOnlyOnRequiredFields ==
    (ObjectReturns /\ Truthy(heap, PropertiesOf(Top))) =>
        \A j \in 1..Len(StructOf(Result).props) :
            Times(types[StructOf(Result).subs[j]].comments, Text("required"))
                <= (IF StructOf(Result).props[j] \in RequiredOf(SchemaOf(Top)) THEN 1 ELSE 0)

====
